---- MODULE Spec2Model ----
(***************************************************************************)
(* Model of profit_calculator.py, a Streamlit script.  Streamlit runs the  *)
(* whole script from top to bottom after every user interaction, so every  *)
(* action below is one interaction (a widget change) followed by one       *)
(* complete run of the script with the new widget values.                  *)
(*                                                                         *)
(* Numbers.  The script computes with floats; the model computes with      *)
(* exact integers in fixed units, and with exact fractions where the       *)
(* script divides:                                                         *)
(*   hashrate          TH/s                                                *)
(*   power             W                                                   *)
(*   hashprice         cents per PH/s per day                              *)
(*   power_price       micro-dollars per kWh, a multiple of 1000           *)
(*   pool_fee_percent  tenths of a percent                                 *)
(*   fleet_size        machines                                            *)
(*   money in edited_df            micro-dollars                           *)
(*   efficiency in edited_df       the fraction power / hashrate           *)
(*   money in display_df           cents       (after round(2))            *)
(*   efficiency in display_df      tenths J/TH (after round(1))            *)
(* The sample inputs are chosen so that every division the engine makes    *)
(* in these units is exact, which makes the integers the exact values of   *)
(* the script's real-number formulas.                                      *)
(* Rows are numbered from 1 (the script numbers them from 0).  The text    *)
(* columns Model and Profile take no part in any computation and are left  *)
(* out of the rows.                                                        *)
(***************************************************************************)
EXTENDS Integers, Sequences, FiniteSets, TLC

VARIABLES
    data,               \* the rows of the editable table: hashrate and power
    power_price,        \* sidebar inputs
    pool_fee_percent,
    hashprice,
    fleet_size,
    selected_rows,      \* selection.selection.rows of the results table
    key_a,              \* value of selectbox "a"; 0 while it is not drawn
    key_b,              \* value of selectbox "b"; 0 while it is not drawn
    edited_df,          \* outputs of the last run of the script
    display_df,
    comp_data_display,
    comp_df_clean,
    comparison_title,
    warning,
    export

inputs == <<data, power_price, pool_fee_percent, hashprice, fleet_size,
            selected_rows, key_a, key_b>>
outputs == <<edited_df, display_df, comp_data_display, comp_df_clean,
             comparison_title, warning, export>>
vars == <<inputs, outputs>>

-----------------------------------------------------------------------------
(* Bounds and sample inputs *)

MaxRows == 3

CENT == 10000       \* micro-dollars in a cent: round(2) keeps whole cents

HASHRATE == "Hashrate (TH/s)"
POWER == "Power (W)"
EFFICIENCY == "Efficiency (J/TH)"
REV == "Rev/Miner ($)"
COST == "Cost/Miner ($)"
PROFIT == "Profit/Miner ($)"
FLEET == "Fleet Profit ($)"

Row(h, p) == (HASHRATE :> h) @@ (POWER :> p)

DefaultRow == Row(140, 3010)
RowValues == {DefaultRow, Row(0, 3116)}
PowerPriceValues == {50000, 80000}
PoolFeeValues == {15, 20}
HashpriceValues == {6000, 6003}
FleetSizeValues == {100, 3}

-----------------------------------------------------------------------------
(* Arithmetic *)

\* The fraction n / d, kept with a positive denominator.
Frac(n, d) == IF d < 0 THEN [num |-> -n, den |-> -d] ELSE [num |-> n, den |-> d]

\* n / d rounded to the nearest integer, ties to the even one (numpy's round).
RoundHalfEven(n, d) ==
    LET q == n \div d
        r == n % d
    IN  IF 2 * r < d THEN q
        ELSE IF 2 * r > d THEN q + 1
        ELSE IF q % 2 = 0 THEN q ELSE q + 1

-----------------------------------------------------------------------------
(* Calculation engine *)

\* Faulty variant of Efficiency: the operands of the division swapped.
EfficiencyInverted(x) ==
    IF x[HASHRATE] > 0 THEN Frac(x[HASHRATE], x[POWER]) ELSE Frac(0, 1)

Efficiency(x) ==
    IF x[HASHRATE] > 0 THEN Frac(x[POWER], x[HASHRATE]) ELSE Frac(0, 1)

\* hashprice / 1000, in micro-dollars per TH/s
hashprice_per_th(hp) == (hp * CENT) \div 1000

RevPerMiner(x, hp) == x[HASHRATE] * hashprice_per_th(hp)

\* (power / 1000) * 24 * power_price; pp is a multiple of 1000
daily_power_cost(x, pp) == x[POWER] * 24 * (pp \div 1000)

\* rev * (pool_fee_percent / 100); fee is in tenths of a percent
pool_fee_cost(rev, fee) == (rev * fee) \div (100 * 10)

CostPerMiner(x, rev, pp, fee) == daily_power_cost(x, pp) + pool_fee_cost(rev, fee)

ProfitPerMiner(rev, cost) == rev - cost

FleetProfit(profit, fs) == profit * fs

EngineRow(x, pp, fee, hp, fs) ==
    LET rev == RevPerMiner(x, hp)
        cost == CostPerMiner(x, rev, pp, fee)
        profit == ProfitPerMiner(rev, cost)
    IN  (HASHRATE :> x[HASHRATE]) @@ (POWER :> x[POWER])
        @@ (EFFICIENCY :> Efficiency(x))
        @@ (REV :> rev) @@ (COST :> cost) @@ (PROFIT :> profit)
        @@ (FLEET :> FleetProfit(profit, fs))

CalculationEngine(d, pp, fee, hp, fs) ==
    [i \in 1..Len(d) |-> EngineRow(d[i], pp, fee, hp, fs)]

-----------------------------------------------------------------------------
(* Rounding for UI *)

money_cols == {REV, COST, PROFIT, FLEET}

RoundColumn(c, v) ==
    IF c = EFFICIENCY THEN RoundHalfEven(v.num * 10, v.den)
    ELSE IF c \in money_cols THEN RoundHalfEven(v, CENT)
    ELSE v

DisplayDf(e) == [i \in 1..Len(e) |-> [c \in DOMAIN e[i] |-> RoundColumn(c, e[i][c])]]

-----------------------------------------------------------------------------
(* Comparison logic *)

\* Faulty variant of metrics_config: revenue and cost in each other's place.
metrics_config_reordered == <<
    [col |-> HASHRATE, better |-> "higher"],
    [col |-> POWER, better |-> "lower"],
    [col |-> EFFICIENCY, better |-> "lower"],
    [col |-> COST, better |-> "lower"],
    [col |-> REV, better |-> "higher"],
    [col |-> PROFIT, better |-> "higher"],
    [col |-> FLEET, better |-> "higher"] >>

metrics_config == <<
    [col |-> HASHRATE, better |-> "higher"],
    [col |-> POWER, better |-> "lower"],
    [col |-> EFFICIENCY, better |-> "lower"],
    [col |-> REV, better |-> "higher"],
    [col |-> COST, better |-> "lower"],
    [col |-> PROFIT, better |-> "higher"],
    [col |-> FLEET, better |-> "higher"] >>

\* The default of selectbox "b": the selected row that is not the baseline.
default_b(sel, idx_a) ==
    LET first == IF Len(sel) > 1 /\ idx_a = sel[1] THEN sel[2] ELSE sel[1]
    IN  IF first \notin {sel[k] : k \in 1..Len(sel)} THEN sel[1] ELSE first

\* Faulty variant of Diff: the size of the difference, without its sign.
DiffUnsigned(val_a, val_b) == IF val_b < val_a THEN val_a - val_b ELSE val_b - val_a

Diff(val_a, val_b) == val_b - val_a

\* (diff / val_a) * 100, or 0.0 on a zero baseline
PctDiff(val_a, diff) ==
    IF val_a # 0
    THEN LET q == Frac(diff, val_a) IN Frac(q.num * 100, q.den)
    ELSE Frac(0, 1)

\* Faulty variant of Color: every rise counts as an improvement.
ColorIgnoringDirection(is_higher_better, diff) ==
    IF diff = 0 THEN "gray" ELSE IF diff > 0 THEN "green" ELSE "red"

Color(is_higher_better, diff) ==
    LET is_positive_outcome ==
            (is_higher_better /\ diff > 0) \/ (~is_higher_better /\ diff < 0)
        is_neutral == (diff = 0)
    IN  IF is_neutral THEN "gray"
        ELSE IF is_positive_outcome THEN "green"
        ELSE "red"

\* Units of a display_df column in 1.0: whole numbers for hashrate and power,
\* tenths for efficiency, cents for money.
DispScale(metric) ==
    IF metric = EFFICIENCY THEN 10 ELSE IF metric \in money_cols THEN 100 ELSE 1

\* f"{diff:+.2f}": the difference in hundredths
FormatDiff(metric, diff) == diff * (100 \div DispScale(metric))

\* f"{pct_diff:+.2f}%": the percentage rounded to hundredths of a percent
FormatPct(pct_diff) == RoundHalfEven(pct_diff.num * 100, pct_diff.den)

DisplayRecord(item, row_a, row_b) ==
    LET metric == item.col
        val_a == row_a[metric]
        val_b == row_b[metric]
        diff == Diff(val_a, val_b)
        color == Color(item.better = "higher", diff)
    IN  [Metric |-> metric, BaselineA |-> val_a, TargetB |-> val_b,
         Difference |-> [color |-> color, text |-> FormatDiff(metric, diff)],
         PctChange |-> [color |-> color, text |-> FormatPct(PctDiff(val_a, diff))]]

\* Faulty variant of CleanRecord: "% Change" left as a percentage.
CleanRecordPercent(item, row_a, row_b) ==
    LET metric == item.col
        val_a == row_a[metric]
        val_b == row_b[metric]
        diff == Diff(val_a, val_b)
    IN  [Metric |-> metric, BaselineA |-> val_a, TargetB |-> val_b,
         Diff |-> diff, PctChange |-> PctDiff(val_a, diff)]

\* "% Change" is pct_diff / 100
CleanRecord(item, row_a, row_b) ==
    LET metric == item.col
        val_a == row_a[metric]
        val_b == row_b[metric]
        diff == Diff(val_a, val_b)
        pct_diff == PctDiff(val_a, diff)
    IN  [Metric |-> metric, BaselineA |-> val_a, TargetB |-> val_b,
         Diff |-> diff, PctChange |-> Frac(pct_diff.num, pct_diff.den * 100)]

\* Faulty variant of CompDataDisplay: with more than two rows selected the
\* first two are compared.
CompDataDisplayFirstTwo(disp, sel, idx_a, idx_b) ==
    IF Len(disp) > 0 /\ Len(sel) >= 2
    THEN [k \in 1..Len(metrics_config) |->
            DisplayRecord(metrics_config[k], disp[sel[1]], disp[sel[2]])]
    ELSE <<>>

\* Faulty variant of CompDfClean: the records of the last comparison are kept
\* while no two rows are selected.
CompDfCleanKept(disp, sel, idx_a, idx_b) ==
    IF Len(disp) > 0 /\ Len(sel) = 2
    THEN [k \in 1..Len(metrics_config) |->
            CleanRecord(metrics_config[k], disp[idx_a], disp[idx_b])]
    ELSE comp_df_clean

\* comp_df_clean is None, and comp_data_display and comparison_title are not
\* set, unless exactly two rows are selected; <<>> stands for that.  idx_a and
\* idx_b are the values the two selectboxes return.
CompDataDisplay(disp, sel, idx_a, idx_b) ==
    IF Len(disp) > 0 /\ Len(sel) = 2
    THEN [k \in 1..Len(metrics_config) |->
            DisplayRecord(metrics_config[k], disp[idx_a], disp[idx_b])]
    ELSE <<>>

CompDfClean(disp, sel, idx_a, idx_b) ==
    IF Len(disp) > 0 /\ Len(sel) = 2
    THEN [k \in 1..Len(metrics_config) |->
            CleanRecord(metrics_config[k], disp[idx_a], disp[idx_b])]
    ELSE <<>>

\* "Comparison: {B} vs Baseline {A}", the rows named by their numbers
ComparisonTitle(disp, sel, idx_a, idx_b) ==
    IF Len(disp) > 0 /\ Len(sel) = 2
    THEN <<[target |-> idx_b, baseline |-> idx_a]>>
    ELSE <<>>

Warning(d, sel) ==
    IF Len(d) = 0 THEN "Please add data to the table."
    ELSE IF Len(sel) > 2 THEN "Please select exactly 2 rows to compare."
    ELSE ""

-----------------------------------------------------------------------------
(* Excel export: the sheets of the workbook behind the download button;    *)
(* <<>> when the table is empty and no button is drawn.                    *)

ModelReport(disp, pp, fee, hp, fs) ==
    [name |-> "Model Report", settings |-> <<pp, hp, fee, fs>>, rows |-> disp]

ComparisonSheet(clean, title) ==
    [name |-> "Comparison", title |-> title, rows |-> clean]

Export(disp, clean, title, pp, fee, hp, fs) ==
    IF Len(disp) = 0 THEN <<>>
    ELSE IF clean # <<>>
         THEN <<ModelReport(disp, pp, fee, hp, fs), ComparisonSheet(clean, title)>>
         ELSE <<ModelReport(disp, pp, fee, hp, fs)>>

-----------------------------------------------------------------------------
(* One run of the script on the widget values *)

ScriptRun(d, pp, fee, hp, fs, sel, idx_a, idx_b) ==
    /\ edited_df' = CalculationEngine(d, pp, fee, hp, fs)
    /\ display_df' = DisplayDf(edited_df')
    /\ comp_data_display' = CompDataDisplay(display_df', sel, idx_a, idx_b)
    /\ comp_df_clean' = CompDfClean(display_df', sel, idx_a, idx_b)
    /\ comparison_title' = ComparisonTitle(display_df', sel, idx_a, idx_b)
    /\ warning' = Warning(d, sel)
    /\ export' = Export(display_df', comp_df_clean', comparison_title',
                        pp, fee, hp, fs)

Rerun == ScriptRun(data', power_price', pool_fee_percent', hashprice',
                   fleet_size', selected_rows', key_a', key_b')

Init ==
    /\ data = <<DefaultRow>>
    /\ power_price = 50000
    /\ pool_fee_percent = 15
    /\ hashprice = 6000
    /\ fleet_size = 100
    /\ selected_rows = <<>>
    /\ key_a = 0
    /\ key_b = 0
    /\ edited_df = CalculationEngine(data, power_price, pool_fee_percent,
                                     hashprice, fleet_size)
    /\ display_df = DisplayDf(edited_df)
    /\ comp_data_display = <<>>
    /\ comp_df_clean = <<>>
    /\ comparison_title = <<>>
    /\ warning = Warning(data, selected_rows)
    /\ export = Export(display_df, comp_df_clean, comparison_title,
                       power_price, pool_fee_percent, hashprice, fleet_size)

-----------------------------------------------------------------------------
(* User interactions.  A widget reruns the script when its value changes. *)

SetPowerPrice(v) ==
    /\ v # power_price
    /\ power_price' = v
    /\ UNCHANGED <<data, pool_fee_percent, hashprice, fleet_size,
                   selected_rows, key_a, key_b>>
    /\ Rerun

SetPoolFee(v) ==
    /\ v # pool_fee_percent
    /\ pool_fee_percent' = v
    /\ UNCHANGED <<data, power_price, hashprice, fleet_size,
                   selected_rows, key_a, key_b>>
    /\ Rerun

SetHashprice(v) ==
    /\ v # hashprice
    /\ hashprice' = v
    /\ UNCHANGED <<data, power_price, pool_fee_percent, fleet_size,
                   selected_rows, key_a, key_b>>
    /\ Rerun

SetFleetSize(v) ==
    /\ v # fleet_size
    /\ fleet_size' = v
    /\ UNCHANGED <<data, power_price, pool_fee_percent, hashprice,
                   selected_rows, key_a, key_b>>
    /\ Rerun

\* num_rows="dynamic": a new row is added at the bottom of the table.
AddRow(r) ==
    /\ Len(data) < MaxRows
    /\ data' = Append(data, r)
    /\ UNCHANGED <<power_price, pool_fee_percent, hashprice, fleet_size,
                   selected_rows, key_a, key_b>>
    /\ Rerun

EditRow(i, r) ==
    /\ i \in 1..Len(data)
    /\ r # data[i]
    /\ data' = [data EXCEPT ![i] = r]
    /\ UNCHANGED <<power_price, pool_fee_percent, hashprice, fleet_size,
                   selected_rows, key_a, key_b>>
    /\ Rerun

\* Deleting a row renumbers the rows below it; the results table is drawn
\* anew with nothing selected.
DeleteRow(i) ==
    /\ i \in 1..Len(data)
    /\ data' = [k \in 1..(Len(data) - 1) |-> IF k < i THEN data[k] ELSE data[k + 1]]
    /\ selected_rows' = <<>>
    /\ key_a' = 0
    /\ key_b' = 0
    /\ UNCHANGED <<power_price, pool_fee_percent, hashprice, fleet_size>>
    /\ Rerun

\* The selected row numbers in ascending order.
SortedSeq(S) ==
    [k \in 1..Cardinality(S) |->
        CHOOSE x \in S : Cardinality({y \in S : y < x}) = k - 1]

\* selection_mode="multi-row": a click selects a row or takes it out of the
\* selection.  With two rows selected the selectboxes are drawn with these
\* rows as options and start at their defaults: "a" at its first option, "b"
\* at default_b.
ToggleSelect(i) ==
    /\ i \in 1..Len(data)
    /\ LET cur == {selected_rows[k] : k \in 1..Len(selected_rows)}
       IN  selected_rows' = SortedSeq(IF i \in cur THEN cur \ {i} ELSE cur \cup {i})
    /\ key_a' = IF Len(selected_rows') = 2 THEN selected_rows'[1] ELSE 0
    /\ key_b' = IF Len(selected_rows') = 2 THEN default_b(selected_rows', key_a') ELSE 0
    /\ UNCHANGED <<data, power_price, pool_fee_percent, hashprice, fleet_size>>
    /\ Rerun

\* The user picks another baseline.  Selectbox "b" keeps its value, or starts
\* over at its new default where the framework rebuilds a widget whose
\* index argument changed.
PickA(i) ==
    /\ Len(selected_rows) = 2
    /\ i \in {selected_rows[1], selected_rows[2]}
    /\ i # key_a
    /\ key_a' = i
    /\ key_b' \in {key_b, default_b(selected_rows, i)}
    /\ UNCHANGED <<data, power_price, pool_fee_percent, hashprice, fleet_size,
                   selected_rows>>
    /\ Rerun

PickB(i) ==
    /\ Len(selected_rows) = 2
    /\ i \in {selected_rows[1], selected_rows[2]}
    /\ i # key_b
    /\ key_b' = i
    /\ UNCHANGED <<data, power_price, pool_fee_percent, hashprice, fleet_size,
                   selected_rows, key_a>>
    /\ Rerun

Next ==
    \/ \E v \in PowerPriceValues : SetPowerPrice(v)
    \/ \E v \in PoolFeeValues : SetPoolFee(v)
    \/ \E v \in HashpriceValues : SetHashprice(v)
    \/ \E v \in FleetSizeValues : SetFleetSize(v)
    \/ \E r \in RowValues : AddRow(r)
    \/ \E i \in 1..MaxRows, r \in RowValues : EditRow(i, r)
    \/ \E i \in 1..MaxRows : DeleteRow(i)
    \/ \E i \in 1..MaxRows : ToggleSelect(i)
    \/ \E i \in 1..MaxRows : PickA(i)
    \/ \E i \in 1..MaxRows : PickB(i)

Spec == Init /\ [][Next]_vars

-----------------------------------------------------------------------------
(* The engine's formulas written out on the current table and the current  *)
(* settings, for the properties below.                                     *)

\* shown is v / unit rounded to a nearest whole number, for unit > 0
NearestTo(shown, v, unit) ==
    LET q == v \div unit
        r == v % unit
    IN  \/ shown = q /\ 2 * r <= unit
        \/ shown = q + 1 /\ 2 * r >= unit

Abs(x) == IF x < 0 THEN -x ELSE x

Sign(x) == IF x < 0 THEN -1 ELSE IF x > 0 THEN 1 ELSE 0

\* a / b = c / d for a, c >= 0 and b, d > 0, by comparing the continued
\* fractions (no products, so no overflow)
RECURSIVE SameRatio(_, _, _, _)
SameRatio(a, b, c, d) ==
    IF a = 0 \/ c = 0 THEN a = c
    ELSE /\ a \div b = c \div d
         /\ LET r1 == a % b
                r2 == c % d
            IN  IF r1 = 0 \/ r2 = 0 THEN r1 = r2 ELSE SameRatio(b, r1, d, r2)

\* the fraction f is n / d, for d # 0
EqualsRatio(f, n, d) ==
    /\ f.den > 0
    /\ Sign(f.num) = Sign(n) * Sign(d)
    /\ SameRatio(Abs(f.num), f.den, Abs(n), Abs(d))

ExpectedRev(x) == x[HASHRATE] * hashprice * 10

ExpectedCost(x) ==
    x[POWER] * 24 * (power_price \div 1000)
        + (ExpectedRev(x) * pool_fee_percent) \div 1000

ExpectedProfit(x) == ExpectedRev(x) - ExpectedCost(x)

ExpectedFleet(x) == ExpectedProfit(x) * fleet_size

Comparing == Len(comp_df_clean) > 0

\* The sample inputs keep every division of the engine exact.
DivisionsExact ==
    /\ (hashprice * CENT) % 1000 = 0
    /\ power_price % 1000 = 0
    /\ \A i \in 1..Len(edited_df) : (edited_df[i][REV] * pool_fee_percent) % 1000 = 0

-----------------------------------------------------------------------------
\* C1: in every row of the engine's table the efficiency is power / hashrate
\* when the hashrate is positive and 0 when the hashrate is 0, and it is
\* always a finite number (a fraction with a non-zero denominator).
C1_EfficiencyGuarded ==
    /\ Len(edited_df) = Len(data)
    /\ \A i \in 1..Len(data) :
         LET h == data[i][HASHRATE]
             p == data[i][POWER]
             eff == edited_df[i][EFFICIENCY]
         IN  /\ eff.den > 0
             /\ h > 0 => eff.num * h = p * eff.den
             /\ h = 0 => eff.num = 0

C1_Witness ==
    \E i, j \in 1..Len(data) :
        /\ data[i][HASHRATE] = 0 /\ data[i][POWER] > 0
        /\ edited_df[i][EFFICIENCY].num = 0
        /\ data[j][HASHRATE] > 0
        /\ edited_df[j][EFFICIENCY].num = data[j][POWER]

\* C2: in every row of the table handed to display, comparison and export,
\* profit per miner equals revenue per miner minus cost per miner exactly.
C2_ProfitIdentityOnDisplay ==
    \A i \in 1..Len(display_df) :
        display_df[i][PROFIT] = display_df[i][REV] - display_df[i][COST]

\* C3: for each metric the comparison's difference is the engine's unrounded
\* target value minus its unrounded baseline value, so two rows whose engine
\* values differ never get a difference of 0.
C3_DiffIsUnrounded ==
    \A k \in 1..Len(comp_df_clean) :
        LET m == comp_df_clean[k].Metric
            va == edited_df[key_a][m]
            vb == edited_df[key_b][m]
            diff == comp_df_clean[k].Diff
        IN  IF m = EFFICIENCY
            THEN /\ diff * va.den * vb.den = 10 * (vb.num * va.den - va.num * vb.den)
                 /\ vb.num * va.den # va.num * vb.den => diff # 0
            ELSE IF m \in money_cols
            THEN /\ diff * CENT = vb - va
                 /\ vb # va => diff # 0
            ELSE /\ diff = vb - va
                 /\ vb # va => diff # 0

\* C4: in every comparison record the percentage is difference / baseline *
\* 100 when the baseline is not 0 and 0.0 when the baseline is 0, whatever
\* the target; the comparison sheet of the export holds that percentage
\* divided by 100.
C4_PercentDifference ==
    Comparing =>
        /\ Len(export) = 2
        /\ export[2].name = "Comparison"
        /\ Len(export[2].rows) = Len(comp_data_display)
        /\ \A k \in 1..Len(comp_data_display) :
             LET shown == comp_data_display[k]
                 sheet == export[2].rows[k]
                 base == shown.BaselineA
                 diff == shown.TargetB - shown.BaselineA
                 pct == shown.PctChange.text     \* hundredths of a percent
                 frac == sheet.PctChange         \* pct_diff / 100
             IN  /\ sheet.BaselineA = base /\ sheet.TargetB = shown.TargetB
                 /\ frac.den > 0
                 /\ base # 0 => EqualsRatio(frac, diff, base)
                 /\ base = 0 => frac.num = 0 /\ pct = 0
                 /\ base > 0 => NearestTo(pct, diff * 10000, base)
                 /\ base < 0 => NearestTo(pct, -(diff * 10000), -base)

C4_Witness ==
    /\ Comparing
    /\ \E k \in 1..Len(comp_df_clean) :
         /\ comp_df_clean[k].BaselineA = 0
         /\ comp_df_clean[k].TargetB # 0
         /\ comp_df_clean[k].PctChange.num = 0
    /\ \E k \in 1..Len(comp_df_clean) :
         /\ comp_df_clean[k].BaselineA # 0
         /\ comp_df_clean[k].PctChange.num # 0

\* C5: every comparison record has exactly one outcome: gray (neutral) iff
\* its difference is 0; otherwise green (better) iff the metric is
\* higher-is-better and the difference is positive, or lower-is-better and
\* the difference is negative; otherwise red (worse).
C5_OutcomeClassification ==
    \A k \in 1..Len(comp_data_display) :
        LET r == comp_data_display[k]
            diff == r.TargetB - r.BaselineA
            higher == \E j \in 1..Len(metrics_config) :
                          /\ metrics_config[j].col = r.Metric
                          /\ metrics_config[j].better = "higher"
            color == r.Difference.color
        IN  /\ color \in {"gray", "green", "red"}
            /\ r.PctChange.color = color
            /\ color = "gray" <=> diff = 0
            /\ color = "green" <=> (higher /\ diff > 0) \/ (~higher /\ diff < 0)
            /\ color = "red" <=> (higher /\ diff < 0) \/ (~higher /\ diff > 0)

C5_Witness ==
    /\ \E k \in 1..Len(comp_data_display) : comp_data_display[k].Difference.color = "gray"
    /\ \E k \in 1..Len(comp_data_display) : comp_data_display[k].Difference.color = "green"
    /\ \E k \in 1..Len(comp_data_display) : comp_data_display[k].Difference.color = "red"

\* C6: comparing the same two rows with baseline and target swapped negates
\* every difference and turns green into red and red into green, while gray
\* records stay gray.
C6_SwapSymmetry ==
    Comparing =>
        LET shown == CompDataDisplay(display_df, selected_rows, key_b, key_a)
            clean == CompDfClean(display_df, selected_rows, key_b, key_a)
        IN  /\ Len(shown) = Len(comp_data_display)
            /\ Len(clean) = Len(comp_df_clean)
            /\ \A k \in 1..Len(comp_df_clean) :
                 /\ clean[k].Metric = comp_df_clean[k].Metric
                 /\ clean[k].Diff = -comp_df_clean[k].Diff
                 /\ shown[k].Difference.text = -comp_data_display[k].Difference.text
                 /\ comp_data_display[k].Difference.color = "gray"
                        <=> shown[k].Difference.color = "gray"
                 /\ comp_data_display[k].Difference.color = "green"
                        <=> shown[k].Difference.color = "red"
                 /\ comp_data_display[k].Difference.color = "red"
                        <=> shown[k].Difference.color = "green"

C6_Witness ==
    /\ Comparing
    /\ key_a # key_b
    /\ \E k \in 1..Len(comp_df_clean) : comp_df_clean[k].Diff > 0
    /\ \E k \in 1..Len(comp_df_clean) : comp_df_clean[k].Diff < 0
    /\ \E k \in 1..Len(comp_df_clean) : comp_df_clean[k].Diff = 0

\* C7: every comparison yields exactly seven records, in the order hashrate,
\* power, efficiency, revenue, cost, profit, fleet profit, the same in the
\* displayed and in the exported list; hashrate, revenue, profit and fleet
\* profit count as better when higher, power, efficiency and cost as better
\* when lower.
C7_SevenMetricsInOrder ==
    Comparing =>
        LET order == <<"Hashrate (TH/s)", "Power (W)", "Efficiency (J/TH)",
                       "Rev/Miner ($)", "Cost/Miner ($)", "Profit/Miner ($)",
                       "Fleet Profit ($)">>
            higher == {1, 4, 6, 7}
        IN  /\ Len(comp_data_display) = 7
            /\ Len(comp_df_clean) = 7
            /\ \A k \in 1..7 :
                 /\ comp_data_display[k].Metric = order[k]
                 /\ comp_df_clean[k].Metric = order[k]
                 /\ comp_df_clean[k].Diff > 0 =>
                        comp_data_display[k].Difference.color
                            = IF k \in higher THEN "green" ELSE "red"
                 /\ comp_df_clean[k].Diff < 0 =>
                        comp_data_display[k].Difference.color
                            = IF k \in higher THEN "red" ELSE "green"

C7_Witness ==
    /\ Len(comp_data_display) = 7
    /\ \A k \in 1..7 : comp_df_clean[k].Diff # 0

\* C8: comparison records exist only in a run with exactly two selected
\* rows, and then baseline and target are both rows of that pair; with more
\* than two selected rows a warning is shown and nothing is compared.
C8_ExactlyTwoSelected ==
    LET sel == {selected_rows[k] : k \in 1..Len(selected_rows)}
    IN  /\ Len(selected_rows) # 2 =>
              /\ comp_data_display = <<>>
              /\ comp_df_clean = <<>>
              /\ comparison_title = <<>>
        /\ Len(selected_rows) > 2 =>
              warning = "Please select exactly 2 rows to compare."
        /\ Len(comp_data_display) > 0 \/ Len(comp_df_clean) > 0 =>
              /\ Len(selected_rows) = 2
              /\ warning = ""
              /\ comparison_title[1].baseline \in sel
              /\ comparison_title[1].target \in sel
              /\ \A k \in 1..Len(comp_df_clean) :
                   /\ comp_df_clean[k].BaselineA
                        = display_df[comparison_title[1].baseline][comp_df_clean[k].Metric]
                   /\ comp_df_clean[k].TargetB
                        = display_df[comparison_title[1].target][comp_df_clean[k].Metric]

C8_Witness ==
    /\ Len(selected_rows) = 3
    /\ warning = "Please select exactly 2 rows to compare."
    /\ comp_df_clean = <<>>

\* C9: in every row shown in the results table the derived fields are those
\* of the row's current hashrate and power under the current settings, and
\* fleet profit equals profit per miner times the current fleet size.
C9_ShownFieldsCurrent ==
    /\ Len(display_df) = Len(data)
    /\ \A i \in 1..Len(display_df) :
         /\ display_df[i][HASHRATE] = data[i][HASHRATE]
         /\ display_df[i][POWER] = data[i][POWER]
         /\ NearestTo(display_df[i][REV], ExpectedRev(data[i]), CENT)
         /\ NearestTo(display_df[i][COST], ExpectedCost(data[i]), CENT)
         /\ NearestTo(display_df[i][PROFIT], ExpectedProfit(data[i]), CENT)
         /\ NearestTo(display_df[i][FLEET], ExpectedFleet(data[i]), CENT)
         /\ display_df[i][FLEET] = display_df[i][PROFIT] * fleet_size

\* C10: the export of a run has a comparison sheet only if exactly two rows
\* are selected in that run, and the sheet's records are those of the chosen
\* baseline and target under the current rows and settings; with any other
\* selection the export has no comparison sheet.
C10_ComparisonSheetCurrent ==
    /\ Len(export) <= 2
    /\ Len(selected_rows) # 2 => Len(export) < 2
    /\ Len(export) = 2 =>
         /\ Len(selected_rows) = 2
         /\ export[2].name = "Comparison"
         /\ export[2].title = <<[target |-> key_b, baseline |-> key_a]>>
         /\ {key_a, key_b} \subseteq {selected_rows[1], selected_rows[2]}
         /\ Len(export[2].rows) = 7
         /\ LET rows == export[2].rows
                ra == data[key_a]
                rb == data[key_b]
            IN  /\ rows[1].BaselineA = ra[HASHRATE] /\ rows[1].TargetB = rb[HASHRATE]
                /\ rows[2].BaselineA = ra[POWER] /\ rows[2].TargetB = rb[POWER]
                /\ NearestTo(rows[4].BaselineA, ExpectedRev(ra), CENT)
                /\ NearestTo(rows[4].TargetB, ExpectedRev(rb), CENT)
                /\ NearestTo(rows[5].BaselineA, ExpectedCost(ra), CENT)
                /\ NearestTo(rows[5].TargetB, ExpectedCost(rb), CENT)
                /\ NearestTo(rows[6].BaselineA, ExpectedProfit(ra), CENT)
                /\ NearestTo(rows[6].TargetB, ExpectedProfit(rb), CENT)
                /\ NearestTo(rows[7].BaselineA, ExpectedFleet(ra), CENT)
                /\ NearestTo(rows[7].TargetB, ExpectedFleet(rb), CENT)
                /\ \A k \in 1..7 : rows[k].Diff = rows[k].TargetB - rows[k].BaselineA

\* Three selected rows are reached only through a selection of two.
C10_Witness ==
    /\ Len(selected_rows) = 3
    /\ Len(export) = 1
    /\ export[1].name = "Model Report"

====
